---- MODULE Spec2Model ----
(***************************************************************************)
(* Model of src/src/main.rs: the starting-word scorer.                     *)
(*                                                                         *)
(* A String is a sequence of one-character strings.  The dictionary the    *)
(* loader produced is any subset of Dictionary.  A letter frequency is the *)
(* f32 occurrences/total_letters; the model keeps it exactly, as the       *)
(* numerator over the common denominator 2 * total_letters, so that the    *)
(* division by 2.0 of the half penalty stays an integer.  f32 rounding is  *)
(* not modelled.                                                           *)
(***************************************************************************)
EXTENDS Integers, Sequences, FiniteSets, TLC

(* Number of worker threads.  The source sets 24; the model runs a smaller *)
(* pool so that every interleaving of the workers can be explored.         *)
N_THREADS == 2

(* Number of pairs a shard keeps.  The source keeps 100; the model keeps   *)
(* fewer so that a shard stores more pairs than it returns.                *)
SHARD_TOP == 2

(* Length of a starting word, and number of entries the reports show. *)
WORD_LEN == 5
REPORT_TOP == 20

Threads == 1..N_THREADS

apple == <<"a", "p", "p", "l", "e">>
grape == <<"g", "r", "a", "p", "e">>
moist == <<"m", "o", "i", "s", "t">>
trees == <<"t", "r", "e", "e", "s">>
tree == <<"t", "r", "e", "e">>
cat == <<"c", "a", "t">>
cats == <<"c", "a", "t", "s">>
cat_s == <<"c", "a", "t", "'", "s">>
x_ray == <<"x", "-", "r", "a", "y">>

(* The words a dictionary of the model may hold: lowercase ASCII lines. *)
Dictionary == {apple, grape, moist, trees, tree, cat, cats, cat_s, x_ray}

(* c.is_ascii() && c.is_alphanumeric() *)
AsciiAlphanumeric ==
    {"a", "b", "c", "d", "e", "f", "g", "h", "i", "j", "k", "l", "m",
     "n", "o", "p", "q", "r", "s", "t", "u", "v", "w", "x", "y", "z",
     "A", "B", "C", "D", "E", "F", "G", "H", "I", "J", "K", "L", "M",
     "N", "O", "P", "Q", "R", "S", "T", "U", "V", "W", "X", "Y", "Z",
     "0", "1", "2", "3", "4", "5", "6", "7", "8", "9"}

Min(a, b) == IF a < b THEN a ELSE b

Chars(word) == {word[i] : i \in 1..Len(word)}

(* The words of the dictionary are ASCII, so len() in bytes is Len. *)
is_possible_starting_word(word) ==
    IF Len(word) # WORD_LEN
    THEN FALSE
    ELSE IF ~(\A i \in 1..Len(word) : word[i] \in AsciiAlphanumeric)
         THEN FALSE
         ELSE TRUE

un_pluralize(word) ==
    IF Len(word) > 0 /\ word[Len(word)] = "s"
    THEN SubSeq(word, 1, Len(word) - 1)
    ELSE word

(* The inner loop of letter_frequencies over the characters of one word. *)
RECURSIVE CountChars(_, _, _)
CountChars(word, index, acc) ==
    IF index > Len(word)
    THEN acc
    ELSE LET character == word[index]
         IN  IF character \in AsciiAlphanumeric
             THEN CountChars(word, index + 1,
                    [occurrences |->
                        IF character \in DOMAIN acc.occurrences
                        THEN [acc.occurrences EXCEPT ![character] = @ + 1]
                        ELSE acc.occurrences @@ (character :> 1),
                     total_letters |-> acc.total_letters + 1])
             ELSE CountChars(word, index + 1, acc)

(* SkipsWord without the check of line 40: a plural is counted. *)
SkipsWord_PossessiveOnly(word, words) ==
    \E i \in 1..Len(word) : word[i] = "'"

(* Whether letter_frequencies skips the word (lines 35-43). *)
SkipsWord(word, words) ==
    \/ \E i \in 1..Len(word) : word[i] = "'"
    \/ (Len(word) > 0 /\ word[Len(word)] = "s" /\ un_pluralize(word) \in words)

(* The outer loop of letter_frequencies over the set, in any order. *)
RECURSIVE CountWords(_, _, _)
CountWords(remaining, words, acc) ==
    IF remaining = {}
    THEN acc
    ELSE LET word == CHOOSE w \in remaining : TRUE
         IN  CountWords(remaining \ {word}, words,
                IF SkipsWord(word, words) THEN acc ELSE CountChars(word, 1, acc))

Occurrences(words) ==
    CountWords(words, words, [occurrences |-> <<>>, total_letters |-> 0])

(* The table returned: each counted character, mapped to its frequency as *)
(* the numerator over 2 * total_letters.                                  *)
letter_frequencies(words) ==
    LET counted == Occurrences(words)
    IN  [character \in DOMAIN counted.occurrences |->
            2 * counted.occurrences[character]]

RECURSIVE SumOver(_, _)
SumOver(letter_usage, table) ==
    IF letter_usage = {}
    THEN 0
    ELSE LET char == CHOOSE c \in letter_usage : TRUE
         IN  table[char] + SumOver(letter_usage \ {char}, table)

(* unwrap() of a lookup of a character the table does not hold. *)
LookupPanics(word, table) == \E c \in Chars(word) : c \notin DOMAIN table

single_word_score(word, table) == SumOver(Chars(word), table)

(* An IndexMap is a sequence of entries in insertion order. *)
MapHas(map, key) == \E i \in 1..Len(map) : map[i].key = key

MapInsert(map, key, value) ==
    IF MapHas(map, key)
    THEN [i \in 1..Len(map) |->
            IF map[i].key = key THEN [key |-> key, value |-> value] ELSE map[i]]
    ELSE Append(map, [key |-> key, value |-> value])

RECURSIVE score_single_words(_, _, _)
score_single_words(words, table, word_scores) ==
    IF words = <<>>
    THEN word_scores
    ELSE score_single_words(Tail(words), table,
            MapInsert(word_scores, Head(words), single_word_score(Head(words), table)))

(* AdjustScore without the division of line 130: a letter elsewhere in *)
(* word1 costs its whole frequency.                                    *)
RECURSIVE AdjustScore_FullPenalty(_, _, _, _, _)
AdjustScore_FullPenalty(word1, word2, table, index, score) ==
    IF index > Len(word2)
    THEN score
    ELSE LET char == word2[index]
         IN  IF word1[index] = char \/ char \in Chars(word1)
             THEN AdjustScore_FullPenalty(word1, word2, table, index + 1,
                                          score - table[char])
             ELSE AdjustScore_FullPenalty(word1, word2, table, index + 1, score)

(* The adjustment loop of score_word_pair over the characters of word2. *)
RECURSIVE AdjustScore(_, _, _, _, _)
AdjustScore(word1, word2, table, index, score) ==
    IF index > Len(word2)
    THEN score
    ELSE LET char == word2[index]
         IN  IF word1[index] = char
             THEN AdjustScore(word1, word2, table, index + 1, score - table[char])
             ELSE IF char \in Chars(word1)
                  THEN AdjustScore(word1, word2, table, index + 1,
                                   score - (table[char] \div 2))
                  ELSE AdjustScore(word1, word2, table, index + 1, score)

PairScore(word1, word2, table) ==
    AdjustScore(word1, word2, table, 1,
                single_word_score(word1, table) + single_word_score(word2, table))

(* score_word_pair: word1 against every word2 of all_words, from index on. *)
RECURSIVE score_word_pair(_, _, _, _, _)
score_word_pair(word1, table, words, index, score_map) ==
    IF index > Len(words)
    THEN score_map
    ELSE LET word2 == words[index]
         IN  IF MapHas(score_map, <<word1, word2>>) \/ MapHas(score_map, <<word2, word1>>)
             THEN score_word_pair(word1, table, words, index + 1, score_map)
             ELSE score_word_pair(word1, table, words, index + 1,
                    MapInsert(score_map, <<word1, word2>>, PairScore(word1, word2, table)))

(* InsertDescending with the comparison of line 166 the other way round. *)
RECURSIVE InsertAscending(_, _)
InsertAscending(sorted, entry) ==
    IF sorted = <<>>
    THEN <<entry>>
    ELSE IF Head(sorted).value <= entry.value
         THEN <<Head(sorted)>> \o InsertAscending(Tail(sorted), entry)
         ELSE <<entry>> \o sorted

(* Where sorted_by puts an entry: behind every entry that does not sort *)
(* after it, which keeps the sort stable.                               *)
RECURSIVE InsertDescending(_, _)
InsertDescending(sorted, entry) ==
    IF sorted = <<>>
    THEN <<entry>>
    ELSE IF Head(sorted).value >= entry.value
         THEN <<Head(sorted)>> \o InsertDescending(Tail(sorted), entry)
         ELSE <<entry>> \o sorted

RECURSIVE SortedFrom(_, _, _)
SortedFrom(map, index, sorted) ==
    IF index > Len(map)
    THEN sorted
    ELSE SortedFrom(map, index + 1, InsertDescending(sorted, map[index]))

(* sorted_by(|_k1, v1, _k2, v2| v2.partial_cmp(v1).unwrap()) *)
sorted_by_descending(map) == SortedFrom(map, 1, <<>>)

take(entries, count) == SubSeq(entries, 1, Min(count, Len(entries)))

(* The result of a shard: lines 165-168. *)
ShardResult(map) == take(sorted_by_descending(map), SHARD_TOP)

(* The orders in which a set can be iterated. *)
Orders(set) ==
    {order \in [1..Cardinality(set) -> set] :
        \A i, j \in 1..Cardinality(set) : i # j => order[i] # order[j]}

RECURSIVE merge(_, _, _)
merge(map, entries, index) ==
    IF index > Len(entries)
    THEN map
    ELSE merge(MapInsert(map, entries[index].key, entries[index].value),
               entries, index + 1)

VARIABLES
    pc,              \* position of main
    all_words,       \* main: the HashSet the loader built
    starting_words,  \* main: the candidates, in iteration order
    frequencies,     \* main: the table letter_frequencies returned
    total_letters,   \* letter_frequencies: the letters counted
    word_scores,     \* main: the map score_single_words returned
    best_words,      \* main: the single words reported
    words_left,      \* score_word_pairs: candidates not yet given to a shard
    thread_handles,  \* score_word_pairs: threads spawned so far
    thread_state,    \* per thread: "unspawned", "running", "finished", "joined"
    words_to_score,  \* per thread: the shard's word1 values
    word_index,      \* per thread: words of the shard already scored
    shard_scores,    \* per thread: the pair_scores map of the shard
    shard_result,    \* per thread: the map the thread returned
    pair_scores,     \* score_word_pairs: the merged map
    best_pairs       \* main: the pairs reported

vars == <<pc, all_words, starting_words, frequencies, total_letters, word_scores,
          best_words, words_left, thread_handles, thread_state, words_to_score,
          word_index, shard_scores, shard_result, pair_scores, best_pairs>>

mainVars == <<all_words, starting_words, frequencies, total_letters, word_scores,
              best_words>>

threadVars == <<thread_state, words_to_score, word_index, shard_scores, shard_result>>

Init ==
    /\ pc = "filter"
    /\ all_words \in SUBSET Dictionary
    /\ starting_words = <<>>
    /\ frequencies = <<>>
    /\ total_letters = 0
    /\ word_scores = <<>>
    /\ best_words = <<>>
    /\ words_left = <<>>
    /\ thread_handles = 0
    /\ thread_state = [t \in Threads |-> "unspawned"]
    /\ words_to_score = [t \in Threads |-> <<>>]
    /\ word_index = [t \in Threads |-> 0]
    /\ shard_scores = [t \in Threads |-> <<>>]
    /\ shard_result = [t \in Threads |-> <<>>]
    /\ pair_scores = <<>>
    /\ best_pairs = <<>>

(* main, line 221: the candidates, in the order the HashSet iterates. *)
FilterStartingWords ==
    /\ pc = "filter"
    /\ \E order \in Orders({w \in all_words : is_possible_starting_word(w)}) :
          starting_words' = order
    /\ pc' = "frequencies"
    /\ UNCHANGED <<all_words, frequencies, total_letters, word_scores, best_words,
                   words_left, thread_handles, threadVars, pair_scores, best_pairs>>

(* main, line 240. *)
LetterFrequencies ==
    /\ pc = "frequencies"
    /\ frequencies' = letter_frequencies(all_words)
    /\ total_letters' = Occurrences(all_words).total_letters
    /\ pc' = "score_single"
    /\ UNCHANGED <<all_words, starting_words, word_scores, best_words,
                   words_left, thread_handles, threadVars, pair_scores, best_pairs>>

(* main, lines 244-252: a missing letter panics in single_word_score. *)
ScoreSingleWords ==
    /\ pc = "score_single"
    /\ IF \E i \in 1..Len(starting_words) : LookupPanics(starting_words[i], frequencies)
       THEN /\ pc' = "panicked"
            /\ UNCHANGED <<word_scores, best_words>>
       ELSE /\ word_scores' = score_single_words(starting_words, frequencies, <<>>)
            /\ best_words' = take(sorted_by_descending(word_scores'), REPORT_TOP)
            /\ pc' = "score_pairs"
    /\ UNCHANGED <<all_words, starting_words, frequencies, total_letters,
                   words_left, thread_handles, threadVars, pair_scores, best_pairs>>

(* score_word_pairs, lines 175-179. *)
ScoreWordPairs ==
    /\ pc = "score_pairs"
    /\ words_left' = starting_words
    /\ thread_handles' = 0
    /\ pc' = "spawn"
    /\ UNCHANGED <<mainVars, threadVars, pair_scores, best_pairs>>

(* The index split_off gets.  The usize subtraction cannot wrap: the loop *)
(* takes len / N_THREADS words at most N_THREADS times.                   *)
SplitAt(words_left_length, all_words_length) ==
    IF words_left_length < all_words_length \div N_THREADS
    THEN words_left_length
    ELSE Min(words_left_length - (all_words_length \div N_THREADS), words_left_length)

(* score_word_pairs, lines 181-196: one iteration of the sharding loop. *)
SpawnShard ==
    /\ pc = "spawn"
    /\ thread_handles < N_THREADS
    /\ LET at == SplitAt(Len(words_left), Len(starting_words))
           t == thread_handles + 1
       IN  /\ words_to_score' = [words_to_score EXCEPT
                                   ![t] = SubSeq(words_left, at + 1, Len(words_left))]
           /\ words_left' = SubSeq(words_left, 1, at)
           /\ thread_state' = [thread_state EXCEPT ![t] = "running"]
           /\ thread_handles' = t
    /\ pc' = IF thread_handles + 1 = N_THREADS THEN "join" ELSE "spawn"
    /\ UNCHANGED <<mainVars, word_index, shard_scores, shard_result, pair_scores,
                   best_pairs>>

(* ScoreShardWord with one map shared by all the workers. *)
ScoreShardWord_SharedMap(t) ==
    /\ thread_state[t] = "running"
    /\ word_index[t] < Len(words_to_score[t])
    /\ shard_scores' = [shard_scores EXCEPT
          ![1] = score_word_pair(words_to_score[t][word_index[t] + 1], frequencies,
                                 starting_words, 1, shard_scores[1])]
    /\ word_index' = [word_index EXCEPT ![t] = @ + 1]
    /\ UNCHANGED <<pc, mainVars, words_left, thread_handles, thread_state,
                   words_to_score, shard_result, pair_scores, best_pairs>>

(* score_word_pairs_shard, lines 152-161: one word1 of the shard. *)
ScoreShardWord(t) ==
    /\ thread_state[t] = "running"
    /\ word_index[t] < Len(words_to_score[t])
    /\ shard_scores' = [shard_scores EXCEPT
          ![t] = score_word_pair(words_to_score[t][word_index[t] + 1], frequencies,
                                 starting_words, 1, shard_scores[t])]
    /\ word_index' = [word_index EXCEPT ![t] = @ + 1]
    /\ UNCHANGED <<pc, mainVars, words_left, thread_handles, thread_state,
                   words_to_score, shard_result, pair_scores, best_pairs>>

(* score_word_pairs_shard, lines 165-168: the thread returns its result. *)
FinishShard(t) ==
    /\ thread_state[t] = "running"
    /\ word_index[t] = Len(words_to_score[t])
    /\ shard_result' = [shard_result EXCEPT ![t] = ShardResult(shard_scores[t])]
    /\ thread_state' = [thread_state EXCEPT ![t] = "finished"]
    /\ UNCHANGED <<pc, mainVars, words_left, thread_handles, words_to_score,
                   word_index, shard_scores, pair_scores, best_pairs>>

(* JoinShard taking what a thread has returned so far, without waiting *)
(* for it to finish.                                                   *)
JoinShard_NoWait ==
    /\ pc = "join"
    /\ \E t \in Threads :
          /\ thread_state[t] \in {"running", "finished"}
          /\ \A u \in Threads : u < t => thread_state[u] = "joined"
          /\ pair_scores' = merge(pair_scores, shard_result[t], 1)
          /\ thread_state' = [thread_state EXCEPT ![t] = "joined"]
          /\ pc' = IF t = N_THREADS THEN "rank" ELSE "join"
    /\ UNCHANGED <<mainVars, words_left, thread_handles, words_to_score,
                   word_index, shard_scores, shard_result, best_pairs>>

(* score_word_pairs, lines 199-203: join the next handle, insert its pairs. *)
JoinShard ==
    /\ pc = "join"
    /\ \E t \in Threads :
          /\ thread_state[t] = "finished"
          /\ \A u \in Threads : u < t => thread_state[u] = "joined"
          /\ pair_scores' = merge(pair_scores, shard_result[t], 1)
          /\ thread_state' = [thread_state EXCEPT ![t] = "joined"]
          /\ pc' = IF t = N_THREADS THEN "rank" ELSE "join"
    /\ UNCHANGED <<mainVars, words_left, thread_handles, words_to_score,
                   word_index, shard_scores, shard_result, best_pairs>>

(* main, lines 259-267. *)
RankPairs ==
    /\ pc = "rank"
    /\ best_pairs' = take(sorted_by_descending(pair_scores), REPORT_TOP)
    /\ pc' = "done"
    /\ UNCHANGED <<mainVars, words_left, thread_handles, threadVars, pair_scores>>

Next ==
    \/ FilterStartingWords
    \/ LetterFrequencies
    \/ ScoreSingleWords
    \/ ScoreWordPairs
    \/ SpawnShard
    \/ \E t \in Threads : ScoreShardWord(t)
    \/ \E t \in Threads : FinishShard(t)
    \/ JoinShard
    \/ RankPairs

Spec == Init /\ [][Next]_vars

(***************************************************************************)
(* Properties.                                                             *)
(***************************************************************************)

Spawned == pc \in {"join", "rank", "done"}

Returned(t) == thread_state[t] \in {"finished", "joined"}

(* The places of the shards: thread and index. *)
ShardPlaces ==
    UNION {{<<t, i>> : i \in 1..Len(words_to_score[t])} : t \in Threads}

RECURSIVE SumSeq(_)
SumSeq(numbers) ==
    IF numbers = <<>> THEN 0 ELSE Head(numbers) + SumSeq(Tail(numbers))

(* C1: once the sharding loop has run, every candidate is the word1 of     *)
(* exactly one shard and the sizes of the shards sum to the number of      *)
(* candidates.                                                             *)
C1_ShardsPartitionCandidates ==
    Spawned =>
        /\ \A k \in 1..Len(starting_words) :
              Cardinality({p \in ShardPlaces :
                  words_to_score[p[1]][p[2]] = starting_words[k]}) = 1
        /\ SumSeq([t \in Threads |-> Len(words_to_score[t])]) = Len(starting_words)

(* C2: the merged map never holds both (A,B) and (B,A) for two distinct    *)
(* candidates A and B.                                                     *)
C2_PairsUnordered ==
    \A i, j \in 1..Len(pair_scores) :
        pair_scores[i].key[1] # pair_scores[i].key[2] =>
            pair_scores[j].key # <<pair_scores[i].key[2], pair_scores[i].key[1]>>

(* C3: no result of a shard and no merged map holds a key (w, w).          *)
C3_NoSelfPairs ==
    /\ \A t \in Threads : \A i \in 1..Len(shard_result[t]) :
          shard_result[t][i].key[1] # shard_result[t][i].key[2]
    /\ \A i \in 1..Len(pair_scores) :
          pair_scores[i].key[1] # pair_scores[i].key[2]

(* The score of a word as a sum over its positions: a letter counts where  *)
(* it first occurs.                                                        *)
DistinctLetterSum(word) ==
    SumSeq([i \in 1..Len(word) |->
              IF \E j \in 1..(i - 1) : word[j] = word[i]
              THEN 0
              ELSE frequencies[word[i]]])

(* The penalty of each position of word2 against word1. *)
Penalties(word1, word2) ==
    [i \in 1..Len(word2) |->
        IF word1[i] = word2[i]
        THEN frequencies[word2[i]]
        ELSE IF \E j \in 1..Len(word1) : j # i /\ word1[j] = word2[i]
             THEN frequencies[word2[i]] \div 2
             ELSE 0]

StoredAsSpecified(entry) ==
    LET word1 == entry.key[1]
        word2 == entry.key[2]
    IN  /\ entry.value = DistinctLetterSum(word1) + DistinctLetterSum(word2)
                            - SumSeq(Penalties(word1, word2))
        /\ Chars(word1) \cap Chars(word2) = {} =>
              entry.value = DistinctLetterSum(word1) + DistinctLetterSum(word2)

(* C4: the score stored for (word1, word2) is the two single-word scores   *)
(* minus the full penalty of each letter of word2 at the same position in  *)
(* word1 and half of it for each letter elsewhere in word1; two words with *)
(* no common letter score the sum of their single-word scores.             *)
C4_PairScoreFormula ==
    /\ \A t \in Threads : \A i \in 1..Len(shard_scores[t]) :
          StoredAsSpecified(shard_scores[t][i])
    /\ \A i \in 1..Len(pair_scores) : StoredAsSpecified(pair_scores[i])

(* A worker stored a pair with a full and a half penalty, and one stored a *)
(* pair of words with no common letter.                                    *)
C4_Witness ==
    /\ \E t \in Threads : \E i \in 1..Len(shard_scores[t]) :
          LET word1 == shard_scores[t][i].key[1]
              word2 == shard_scores[t][i].key[2]
          IN  /\ word1 # word2
              /\ \E k \in 1..Len(word2) : word1[k] = word2[k]
              /\ \E k \in 1..Len(word2) :
                    word1[k] # word2[k] /\ word2[k] \in Chars(word1)
    /\ \E t \in Threads : \E i \in 1..Len(shard_scores[t]) :
          /\ Chars(shard_scores[t][i].key[1]) \cap Chars(shard_scores[t][i].key[2]) = {}
          /\ shard_scores[t][i].value > 0

(* C5: once the table is built, every character of every candidate is a    *)
(* key of it, and scoring never panics on a lookup.                        *)
C5_LookupNeverMisses ==
    /\ pc # "panicked"
    /\ pc \notin {"filter", "frequencies"} =>
          \A k \in 1..Len(starting_words) :
              Chars(starting_words[k]) \subseteq DOMAIN frequencies

(* C6: when letter_frequencies counted no letter, the run is in the error  *)
(* state: no table was returned and no scoring or ranking stage is         *)
(* reached.                                                                *)
C6_EmptyInputFailsFast ==
    (pc \notin {"filter", "frequencies"} /\ total_letters = 0) => pc = "panicked"

(* The words letter_frequencies counts, as the claim states them. *)
CountedWords ==
    {w \in all_words :
        /\ \A i \in 1..Len(w) : w[i] # "'"
        /\ ~(Len(w) > 0 /\ w[Len(w)] = "s" /\ SubSeq(w, 1, Len(w) - 1) \in all_words)}

OccurrencesOf(c) ==
    Cardinality(UNION {{<<w, i>> : i \in {k \in 1..Len(w) : w[k] = c}} :
                          w \in CountedWords})

(* C7: letter_frequencies counts the words without an apostrophe that are  *)
(* not the plural of a word of the set; the count of an ASCII-alphanumeric *)
(* character is the number of its occurrences in those words, and the      *)
(* table holds exactly the characters with a positive count.               *)
C7_FrequencyCounts ==
    pc \notin {"filter", "frequencies"} =>
        /\ DOMAIN frequencies \subseteq AsciiAlphanumeric
        /\ \A c \in AsciiAlphanumeric :
              /\ c \in DOMAIN frequencies <=> OccurrencesOf(c) > 0
              /\ c \in DOMAIN frequencies => frequencies[c] = 2 * OccurrencesOf(c)
        /\ total_letters =
              Cardinality(UNION {{<<w, i>> :
                  i \in {k \in 1..Len(w) : w[k] \in AsciiAlphanumeric}} :
                      w \in CountedWords})
        /\ {cat, cats, cat_s} = all_words =>
              frequencies = [c \in {"c", "a", "t"} |-> 2]

(* The table was built from a set with a plural, a possessive, a repeated  *)
(* letter and a character that is not counted.                             *)
C7_Witness ==
    /\ pc \notin {"filter", "frequencies"}
    /\ all_words = {cat, cats, cat_s, apple, x_ray}
    /\ frequencies["p"] = 4
    /\ total_letters = 12

(* The entry is in the map. *)
Holds(map, entry) == \E i \in 1..Len(map) : map[i] = entry

(* C8: the result of a shard holds at most SHARD_TOP pairs, in descending  *)
(* order of score, all of them stored by the worker, and no stored pair    *)
(* left out scores more than a pair kept.                                  *)
C8_ShardResultTop ==
    \A t \in Threads : Returned(t) =>
        /\ Len(shard_result[t]) <= SHARD_TOP
        /\ \A i, j \in 1..Len(shard_result[t]) :
              i < j => shard_result[t][i].value >= shard_result[t][j].value
        /\ \A i \in 1..Len(shard_result[t]) : Holds(shard_scores[t], shard_result[t][i])
        /\ \A i \in 1..Len(shard_scores[t]) :
              ~Holds(shard_result[t], shard_scores[t][i]) =>
                  \A j \in 1..Len(shard_result[t]) :
                      shard_scores[t][i].value <= shard_result[t][j].value

(* A worker returned fewer pairs than it stored, and left out a pair that  *)
(* scores less than one it kept although it was stored before it.          *)
C8_Witness ==
    \E t \in Threads :
        /\ Returned(t)
        /\ Len(shard_scores[t]) > SHARD_TOP
        /\ Len(shard_result[t]) = SHARD_TOP
        /\ \E i, j \in 1..Len(shard_scores[t]) :
              /\ i < j
              /\ ~Holds(shard_result[t], shard_scores[t][i])
              /\ Holds(shard_result[t], shard_scores[t][j])
              /\ shard_scores[t][i].value < shard_scores[t][j].value

(* C9: nothing is in the merged map before every worker has finished its   *)
(* shard.                                                                  *)
C9_MergeAfterAllWorkers ==
    pair_scores # <<>> => \A t \in Threads : Returned(t)

(* C9, amended: a result is inserted into the merged map only once the     *)
(* worker that returned it has finished, the handles being joined in the   *)
(* order they were spawned; the merged map is returned only once every     *)
(* worker has finished.                                                    *)
C9_MergeAfterOwnWorker ==
    /\ [][\A t \in Threads :
            (thread_state[t] # "joined" /\ thread_state'[t] = "joined") =>
                /\ thread_state[t] = "finished"
                /\ \A u \in Threads : u < t => thread_state[u] = "joined"]_vars
    /\ [][pair_scores' # pair_scores =>
            \E t \in Threads :
                /\ thread_state[t] = "finished"
                /\ thread_state'[t] = "joined"
                /\ pair_scores' = merge(pair_scores, shard_result[t], 1)]_vars
    /\ [](pc \in {"rank", "done"} => \A t \in Threads : thread_state[t] = "joined")

(* The result of one worker is merged while another worker is running. *)
C9_Witness ==
    \E t, u \in Threads :
        /\ thread_state[t] = "joined"
        /\ shard_result[t] # <<>>
        /\ Holds(pair_scores, shard_result[t][1])
        /\ thread_state[u] = "running"

(* A step of worker t. *)
WorkerStep(t) ==
    /\ thread_state[t] = "running"
    /\ word_index'[t] # word_index[t] \/ thread_state'[t] = "finished"

(* C10: a step of a worker changes neither the candidate list nor the      *)
(* table nor anything of another worker, and the map and the result of a   *)
(* worker change only in a step of that worker.                           *)
C10_WorkersShareNothing ==
    [][\A t \in Threads :
          /\ WorkerStep(t) =>
                /\ UNCHANGED <<all_words, starting_words, frequencies, pair_scores>>
                /\ \A u \in Threads \ {t} :
                      /\ shard_scores'[u] = shard_scores[u]
                      /\ shard_result'[u] = shard_result[u]
                      /\ word_index'[u] = word_index[u]
                      /\ words_to_score'[u] = words_to_score[u]
                      /\ thread_state'[u] = thread_state[u]
          /\ (shard_scores'[t] # shard_scores[t] \/ shard_result'[t] # shard_result[t])
                => WorkerStep(t)]_vars

(* Two workers are running, each with pairs in its own map. *)
C10_Witness ==
    \E t, u \in Threads :
        /\ t # u
        /\ thread_state[t] = "running" /\ thread_state[u] = "running"
        /\ shard_scores[t] # <<>> /\ shard_scores[u] # <<>>
        /\ shard_scores[t] # shard_scores[u]

====
